---- MODULE Spec2Model ----
(***************************************************************************)
(* A model of the QuickBooks MCP server: QuickBooksSession.call_route and  *)
(* refresh_access_token (quickbooks_interaction.py), the tool functions    *)
(* generated by register_all_apis (main.py), load_apis (api_importer.py)   *)
(* and, of handlers.py, the report flattening, query_quickbooks,           *)
(* get_report and their next-page cursors.                                 *)
(*                                                                         *)
(* Python strings whose characters matter (routes, parameter names, cell   *)
(* values) are sequences of one-character strings; dicts are functions;    *)
(* a decoded JSON value is a sequence of tags, its first tag the Python    *)
(* type name of the value.                                                 *)
(***************************************************************************)
EXTENDS Integers, Sequences, FiniteSets, TLC

VARIABLES
    quickbooks,     \* the module-level session: "None" or "session"
    access_token,   \* QuickBooksSession.access_token
    refresh_token,  \* QuickBooksSession.refresh_token
    issued,         \* token endpoint: number of token responses issued so far
    calls,          \* number of calls started so far
    pc,             \* per caller: its position in call_route
    req,            \* per caller: the arguments of the transport call
    sent,           \* per caller: the transport calls of the current call, in order
    resps,          \* per caller: the responses of the current call, in order
    refreshes,      \* per caller: refresh_access_token invocations of the current call
    data,           \* per caller: refresh_access_token's local `data`
    tokens,         \* per caller: refresh_access_token's local `response`
    result,         \* per caller: what call_route returned or raised
    tool,           \* per caller: the generated tool function's locals
    tool_result,    \* per caller: what the generated tool function returned or raised
    apis,           \* register_all_apis: the list load_apis returned
    reg_idx,        \* register_all_apis: how many of apis the loop has handled
    table,          \* the tool table of the MCP server: name -> registered tool
    reg_error,      \* register_all_apis: the exception that ended it, or ""
    last_op,        \* load_apis: the operation object of the latest loop turn
    method_data,    \* load_apis: the descriptors compiled so far
    load_error,     \* load_apis: the exception that ended it
    columns,        \* _flatten_report_rows: report_json["Columns"]["Column"]
    stack,          \* _flatten_report_rows: the frames of walk, innermost last
    flat_rows,      \* _flatten_report_rows: flat_rows
    visited,        \* the rows of the report walk has read so far
    last,           \* the row walk handled last, and flat_rows before it did
    handler,        \* per caller: the locals of query_quickbooks or get_report
    handler_result, \* per caller: what the handler returned or raised
    credentials,    \* whether the token endpoint accepts the configured credentials
    page            \* the pagination block last read and the cursor derived from it

callVars == <<quickbooks, access_token, refresh_token, issued, calls,
              pc, req, sent, resps, refreshes, data, tokens, result>>
toolVars == <<tool, tool_result>>
regVars == <<apis, reg_idx, table, reg_error>>
loadVars == <<last_op, method_data, load_error>>
reportVars == <<columns, stack, flat_rows, visited, last>>
handlerVars == <<handler, handler_result, credentials>>
cursorVars == <<page>>
vars == <<callVars, toolVars, regVars, loadVars, reportVars, handlerVars, cursorVars>>

\* what the calls of call_route and of the tool functions leave alone
offDispatch == <<regVars, loadVars, reportVars, handlerVars, cursorVars>>

\* what register_all_apis leaves alone
offRegister == <<callVars, toolVars, loadVars, reportVars, handlerVars, cursorVars>>

\* what load_apis leaves alone
offLoad == <<callVars, toolVars, regVars, reportVars, handlerVars, cursorVars>>

\* what _flatten_report_rows leaves alone
offReport == <<callVars, toolVars, regVars, loadVars, handlerVars, cursorVars>>

\* what query_quickbooks and get_report leave alone, call_route apart
offHandlers == <<toolVars, regVars, loadVars, reportVars, cursorVars>>

\* what the derivation of a cursor leaves alone
offCursor == <<callVars, toolVars, regVars, loadVars, reportVars, handlerVars>>

(***************************************************************************)
(* Bounds and input sets                                                   *)
(***************************************************************************)
MaxCalls == 2

Callers == {"c1", "c2"}

EmptyMap == [n \in {} |-> <<>>]

\* the absent body (body=None) and a body with fields
NoBody == [present |-> FALSE, fields |-> EmptyMap]

Body(fields) == [present |-> TRUE, fields |-> fields]

\* HTTP statuses the transport may answer with
Statuses == {200, 401, 500}

\* statuses of the token endpoint
TokenStatuses == {200, 400}

\* decoded 200 bodies: an object, a list and null
JsonBodies == { <<"dict", "d1">>, <<"list", "l1">>, <<"NoneType">> }

\* raw bodies of non-200 answers
RawTexts == {"denied", "busy"}

Responses ==
    [status : {200}, json : JsonBodies, text : {""}]
      \cup [status : Statuses \ {200}, json : {<<>>}, text : RawTexts]

(***************************************************************************)
(* Results: a returned value or a raised exception                         *)
(***************************************************************************)
NoResult ==
    [kind |-> "none", value |-> <<>>, exc |-> "", cause |-> "", status |-> 0,
     text |-> "", name |-> <<>>]

Returned(v) == [NoResult EXCEPT !.kind = "ok", !.value = v]

\* raise RuntimeError(f"Error: {response.status_code} {response.text}")
ApiError(r) ==
    [NoResult EXCEPT !.kind = "error", !.exc = "RuntimeError", !.cause = "api",
                     !.status = r.status, !.text = r.text]

\* raise RuntimeError(f"Error refreshing token: {status_code} {text}")
RefreshError(r) ==
    [NoResult EXCEPT !.kind = "error", !.exc = "RuntimeError", !.cause = "refresh",
                     !.status = r.status, !.text = r.text]

(***************************************************************************)
(* QuickBooksSession.call_route                                            *)
(***************************************************************************)
BaseUrl == "https://sandbox-quickbooks.api.intuit.com"

CompanyId == "realm1"

\* if not route.startswith("/"): route = "/" + route
WithLeadingSlash(route) ==
    IF Len(route) > 0 /\ route[1] = "/" THEN route ELSE <<"/">> \o route

\* url = f"{self.base_url}/v3/company/{self.company_id}{route}"
BuildUrl(route) ==
    [base |-> BaseUrl, prefix |-> "/v3/company/", company |-> CompanyId,
     route |-> WithLeadingSlash(route)]

\* a GET passes no json body to the transport
TransportCall(r, token) ==
    [method |-> r.method, url |-> r.url, params |-> r.params,
     json |-> IF r.method = "get" THEN NoBody ELSE r.body,
     bearer |-> token]

IsOk(status) == status = 200

\* a bug: every non-200 answer is taken for an expired token
IsUnauthorized_AnyFailure(status) == status # 200

IsUnauthorized(status) == status = 401

\* what call_route does with the answer to its first attempt
AfterFirst(r) ==
    IF IsOk(r.status) THEN "return"
    ELSE IF IsUnauthorized(r.status) THEN "refresh"
    ELSE "raise"

\* a bug: the retry's status is not looked at
AfterRetry_Unchecked(r) == "return"

\* what call_route does with the answer to its retry
AfterRetry(r) == IF IsOk(r.status) THEN "return" ELSE "raise"

NoTokens ==
    [status |-> 0, text |-> "", access |-> 0, has_refresh |-> FALSE, refresh |-> 0]

\* the first attempt of call_route(method_type, route, params, body) by caller c
FirstAttempt(c, method_type, route, params, body, r) ==
    LET rq == [method |-> method_type, url |-> BuildUrl(route),
               params |-> params, body |-> body]
        next == AfterFirst(r)
    IN  /\ req' = [req EXCEPT ![c] = rq]
        /\ sent' = [sent EXCEPT ![c] = <<TransportCall(rq, access_token)>>]
        /\ resps' = [resps EXCEPT ![c] = <<r>>]
        /\ refreshes' = [refreshes EXCEPT ![c] = 0]
        /\ calls' = calls + 1
        /\ pc' = [pc EXCEPT ![c] = IF next = "refresh" THEN "refresh" ELSE "done"]
        /\ result' = [result EXCEPT ![c] =
                         CASE next = "return" -> Returned(r.json)
                           [] next = "raise" -> ApiError(r)
                           [] OTHER -> NoResult]
        /\ data' = [data EXCEPT ![c] = 0]
        /\ tokens' = [tokens EXCEPT ![c] = NoTokens]
        /\ UNCHANGED <<quickbooks, access_token, refresh_token, issued>>

\* the direct callers of call_route: query() and the get_* helpers
DirectRequests ==
    { [method |-> "get", route |-> <<"/", "q">>,
       params |-> [n \in {<<"q">>} |-> <<"s">>], body |-> NoBody],
      [method |-> "post", route |-> <<"b">>,
       params |-> EmptyMap, body |-> Body([n \in {<<"n">>} |-> <<"4">>])] }

CallRoute(c) ==
    /\ UNCHANGED offDispatch
    /\ quickbooks = "session"
    /\ pc[c] = "idle"
    /\ calls < MaxCalls
    /\ \E d \in DirectRequests, r \in Responses :
          FirstAttempt(c, d.method, d.route, d.params, d.body, r)
    /\ UNCHANGED toolVars

\* refresh_access_token, entered from the 401 branch: data is built from
\* self.refresh_token and posted to the token endpoint, which answers
RefreshSubmit(c) ==
    /\ UNCHANGED offDispatch
    /\ pc[c] = "refresh"
    /\ refreshes' = [refreshes EXCEPT ![c] = @ + 1]
    /\ data' = [data EXCEPT ![c] = refresh_token]
    /\ \E st \in TokenStatuses, has \in BOOLEAN :
          /\ st # 200 => has = FALSE
          /\ tokens' = [tokens EXCEPT ![c] =
                [status |-> st, text |-> IF st = 200 THEN "" ELSE "invalid_grant",
                 access |-> IF st = 200 THEN issued + 1 ELSE 0,
                 has_refresh |-> has,
                 refresh |-> IF st = 200 /\ has THEN issued + 1 ELSE 0]]
          /\ issued' = IF st = 200 THEN issued + 1 ELSE issued
    /\ pc' = [pc EXCEPT ![c] = "rf_response"]
    /\ UNCHANGED <<quickbooks, access_token, refresh_token, calls, req, sent, resps,
                   result, toolVars>>

\* if response.status_code == 200: self.access_token = tokens["access_token"]
\* else: raise RuntimeError
RefreshStoreAccess(c) ==
    /\ UNCHANGED offDispatch
    /\ pc[c] = "rf_response"
    /\ IF IsOk(tokens[c].status)
         THEN /\ access_token' = tokens[c].access
              /\ pc' = [pc EXCEPT ![c] = "rf_access_stored"]
              /\ UNCHANGED result
         ELSE /\ pc' = [pc EXCEPT ![c] = "done"]
              /\ result' = [result EXCEPT ![c] = RefreshError(tokens[c])]
              /\ UNCHANGED access_token
    /\ UNCHANGED <<quickbooks, refresh_token, issued, calls, req, sent,
                   resps, refreshes, data, tokens, toolVars>>

\* self.refresh_token = tokens.get("refresh_token", self.refresh_token)
RefreshStoreRefresh(c) ==
    /\ UNCHANGED offDispatch
    /\ pc[c] = "rf_access_stored"
    /\ refresh_token' = IF tokens[c].has_refresh THEN tokens[c].refresh
                        ELSE refresh_token
    /\ pc' = [pc EXCEPT ![c] = "retry"]
    /\ UNCHANGED <<quickbooks, access_token, issued, calls, req, sent,
                   resps, refreshes, data, tokens, result, toolVars>>

\* the second attempt, with the headers rebuilt from the held access token
Retry(c) ==
    /\ UNCHANGED offDispatch
    /\ pc[c] = "retry"
    /\ \E r \in Responses :
          /\ sent' = [sent EXCEPT ![c] = Append(@, TransportCall(req[c], access_token))]
          /\ resps' = [resps EXCEPT ![c] = Append(@, r)]
          /\ result' = [result EXCEPT ![c] =
                           IF AfterRetry(r) = "return" THEN Returned(r.json)
                           ELSE ApiError(r)]
    /\ pc' = [pc EXCEPT ![c] = "done"]
    /\ UNCHANGED <<quickbooks, access_token, refresh_token, issued, calls,
                   req, refreshes, data, tokens, toolVars>>

NoRequest ==
    [method |-> "", url |-> BuildUrl(<<>>), params |-> EmptyMap, body |-> NoBody]

NoTool ==
    [op |-> 0, args |-> EmptyMap, kwargs |-> EmptyMap, path_params |-> EmptyMap,
     query_params |-> EmptyMap, request_body |-> EmptyMap, called |-> FALSE]

\* the caller takes what call_route returned or raised; the call's locals are gone
Return(c) ==
    /\ UNCHANGED offDispatch
    /\ pc[c] = "done"
    /\ pc' = [pc EXCEPT ![c] = "idle"]
    /\ req' = [req EXCEPT ![c] = NoRequest]
    /\ sent' = [sent EXCEPT ![c] = <<>>]
    /\ resps' = [resps EXCEPT ![c] = <<>>]
    /\ refreshes' = [refreshes EXCEPT ![c] = 0]
    /\ data' = [data EXCEPT ![c] = 0]
    /\ tokens' = [tokens EXCEPT ![c] = NoTokens]
    /\ result' = [result EXCEPT ![c] = NoResult]
    /\ UNCHANGED <<quickbooks, access_token, refresh_token, issued, calls, toolVars>>

(***************************************************************************)
(* Python strings and values                                               *)
(***************************************************************************)
TenantPrefix ==
    <<"/", "v", "3", "/", "c", "o", "m", "p", "a", "n", "y", "/",
      "{", "r", "e", "a", "l", "m", "I", "d", "}">>

RealmId == <<"r", "e", "a", "l", "m", "I", "d">>

KwargsKey == <<"k", "w", "a", "r", "g", "s">>

PyNone == [t |-> "NoneType", s |-> <<>>]

PyStr(s) == [t |-> "str", s |-> s]

\* str(v), as str.format renders a value
Str(v) == IF v.t = "NoneType" THEN <<"N", "o", "n", "e">> ELSE v.s

\* s[i:].startswith(pat)
StartsWithAt(s, i, pat) ==
    /\ i + Len(pat) - 1 <= Len(s)
    /\ SubSeq(s, i, i + Len(pat) - 1) = pat

\* pat in s
Contains(s, pat) == \E i \in 1..Len(s) : StartsWithAt(s, i, pat)

RECURSIVE ReplaceFrom(_, _, _, _)
ReplaceFrom(s, i, old, new) ==
    IF i > Len(s) THEN <<>>
    ELSE IF StartsWithAt(s, i, old)
           THEN new \o ReplaceFrom(s, i + Len(old), old, new)
           ELSE <<s[i]>> \o ReplaceFrom(s, i + 1, old, new)

\* s.replace(old, new), old not empty
Replace(s, old, new) == ReplaceFrom(s, 1, old, new)

(***************************************************************************)
(* register_all_apis: the names and the generated tool functions           *)
(***************************************************************************)
MethodChars ==
    [get |-> <<"g", "e", "t">>, post |-> <<"p", "o", "s", "t">>]

\* the route without the company/realm part
CleanApiRoute(route) ==
    IF Contains(route, TenantPrefix) THEN Replace(route, TenantPrefix, <<>>)
    ELSE route

CleanRouteForName(route) ==
    Replace(Replace(Replace(Replace(Replace(route,
        <<"/">>, <<"_">>), <<"-">>, <<"_">>), <<":">>, <<"_">>),
        <<"{">>, <<>>), <<"}">>, <<>>)

\* method_name = f"{api['method']}{clean_route_for_name}"
MethodName(api) ==
    MethodChars[api.method] \o CleanRouteForName(CleanApiRoute(api.route))

\* api_params_filtered
ApiParamsFiltered(api) ==
    SelectSeq(api.parameters, LAMBDA p : p.name # RealmId)

\* what the generated source of one tool function is built from
GeneratedTool(api) ==
    [name |-> MethodName(api), route |-> CleanApiRoute(api.route),
     method |-> api.method, api_params |-> ApiParamsFiltered(api)]

Param(n, loc) == [name |-> n, location |-> loc]

\* three operations as load_apis emits them: GET .../b/{x}, POST .../b/{x}/{y}
\* and GET .../q, whose parameter m has no recognised location
SampleApis ==
    << [route |-> TenantPrefix \o <<"/", "b", "/", "{", "x", "}">>,
        method |-> "get",
        parameters |-> <<Param(RealmId, "path"), Param(<<"x">>, "path"),
                         Param(<<"m">>, "query")>>],
       [route |-> TenantPrefix \o <<"/", "b", "/", "{", "x", "}", "/", "{", "y", "}">>,
        method |-> "post",
        parameters |-> <<Param(RealmId, "path"), Param(<<"x">>, "path"),
                         Param(<<"y">>, "path"), Param(<<"m">>, "query")>>],
       [route |-> TenantPrefix \o <<"/", "q">>,
        method |-> "get",
        parameters |-> <<Param(RealmId, "path"), Param(<<"m">>, "unknown")>>] >>

Tools == [i \in 1..Len(SampleApis) |-> GeneratedTool(SampleApis[i])]

\* the argument maps a client may pass
ArgNames == {<<"x">>, <<"y">>, <<"m">>, <<"n">>, KwargsKey}

ArgValues(n) ==
    IF n = KwargsKey THEN {PyStr(<<"x", "=", "4">>), PyStr(<<"4">>)}
    ELSE IF n = <<"n">> THEN {PyStr(<<"4">>)}
    ELSE {PyNone, PyStr(<<"4">>)}

ArgMaps ==
    UNION { {f \in [D -> UNION {ArgValues(n) : n \in D}] :
                \A n \in D : f[n] \in ArgValues(n)} : D \in SUBSET ArgNames }

\* the workaround for clients that pass all arguments as one string in 'kwargs'
EffectiveKwargs(args) ==
    IF /\ KwargsKey \in DOMAIN args
       /\ args[KwargsKey].t = "str"
       /\ Contains(args[KwargsKey].s, <<"=">>)
      THEN LET v == args[KwargsKey].s
               i == CHOOSE k \in 1..Len(v) :
                       v[k] = "=" /\ \A j \in 1..(k - 1) : v[j] # "="
           IN  [n \in {SubSeq(v, 1, i - 1)} |-> PyStr(SubSeq(v, i + 1, Len(v)))]
      ELSE args

\* if p_name in kwargs
Supplied(n, kwargs) == n \in DOMAIN kwargs

ParamsIn(loc, api_params, kwargs) ==
    LET names == {api_params[i].name : i \in
                    {j \in 1..Len(api_params) :
                        /\ Supplied(api_params[j].name, kwargs)
                        /\ api_params[j].location = loc}}
    IN  [n \in names |-> kwargs[n]]

\* the rest of kwargs is the request body for POST/PUT/PATCH
RequestBody(method, kwargs, path_params, query_params) ==
    IF method \in {"post", "put", "patch"}
      THEN [k \in (DOMAIN kwargs \ DOMAIN path_params) \ DOMAIN query_params
               |-> kwargs[k]]
      ELSE EmptyMap

RECURSIVE FormatFrom(_, _, _)
\* route.format(**path_params) from position i on: the text, or the first
\* placeholder that has no value (KeyError)
FormatFrom(route, i, path_params) ==
    IF i > Len(route) THEN [ok |-> TRUE, out |-> <<>>, missing |-> <<>>]
    ELSE IF route[i] = "{"
      THEN LET j == CHOOSE k \in (i + 1)..Len(route) :
                       route[k] = "}" /\ \A l \in (i + 1)..(k - 1) : route[l] # "}"
               name == SubSeq(route, i + 1, j - 1)
               rest == FormatFrom(route, j + 1, path_params)
           IN  IF name \notin DOMAIN path_params
                 THEN [ok |-> FALSE, out |-> <<>>, missing |-> name]
                 ELSE IF rest.ok
                        THEN [rest EXCEPT !.out = Str(path_params[name]) \o @]
                        ELSE rest
      ELSE LET rest == FormatFrom(route, i + 1, path_params)
           IN  IF rest.ok THEN [rest EXCEPT !.out = <<route[i]>> \o @] ELSE rest

\* if path_params: route = route.format(**path_params)
FormatRoute(route, path_params) ==
    IF DOMAIN path_params # {} THEN FormatFrom(route, 1, path_params)
    ELSE [ok |-> TRUE, out |-> route, missing |-> <<>>]

\* raise RuntimeError("Error: QuickBooks session not initialized. ...")
Uninitialized ==
    [NoResult EXCEPT !.kind = "error", !.exc = "RuntimeError",
                     !.cause = "uninitialized"]

\* the KeyError naming the missing path parameter, re-raised as RuntimeError
BindingError(n) ==
    [NoResult EXCEPT !.kind = "error", !.exc = "RuntimeError",
                     !.cause = "KeyError", !.name = n]

\* the TypeError naming the type of the response, re-raised as RuntimeError
TypeMismatch(t) ==
    [NoResult EXCEPT !.kind = "error", !.exc = "RuntimeError",
                     !.cause = "TypeError", !.text = t]

TypeOf(v) == v[1]

\* {"results": response}
WrapResults(v) == <<"dict", "results">> \o v

\* a bug: every response is wrapped, an object too
Normalize_WrapsAll(res) ==
    IF res.kind = "error" THEN res ELSE Returned(WrapResults(res.value))

\* the end of the generated function: the response's shape decides; an
\* exception of call_route is re-raised as RuntimeError with its message
Normalize(res) ==
    IF res.kind = "error" THEN res
    ELSE IF TypeOf(res.value) = "dict" THEN Returned(res.value)
    ELSE IF TypeOf(res.value) = "list" THEN Returned(WrapResults(res.value))
    ELSE TypeMismatch(TypeOf(res.value))

\* a call that never reaches call_route leaves no transport call behind
NoCall(c) ==
    /\ calls' = calls + 1
    /\ req' = [req EXCEPT ![c] = NoRequest]
    /\ sent' = [sent EXCEPT ![c] = <<>>]
    /\ resps' = [resps EXCEPT ![c] = <<>>]
    /\ refreshes' = [refreshes EXCEPT ![c] = 0]
    /\ data' = [data EXCEPT ![c] = 0]
    /\ tokens' = [tokens EXCEPT ![c] = NoTokens]
    /\ result' = [result EXCEPT ![c] = NoResult]
    /\ pc' = [pc EXCEPT ![c] = "tool_done"]
    /\ UNCHANGED <<quickbooks, access_token, refresh_token, issued>>

\* a generated tool function, from its entry to the first answer of the transport
ToolCall(c) ==
    /\ UNCHANGED offDispatch
    /\ pc[c] = "idle"
    /\ calls < MaxCalls
    /\ \E i \in DOMAIN Tools, args \in ArgMaps :
          LET t == Tools[i]
              kwargs == EffectiveKwargs(args)
              path_params == ParamsIn("path", t.api_params, kwargs)
              query_params == ParamsIn("query", t.api_params, kwargs)
              request_body == RequestBody(t.method, kwargs, path_params, query_params)
              formatted == FormatRoute(t.route, path_params)
              locals == [op |-> i, args |-> args, kwargs |-> kwargs,
                         path_params |-> path_params, query_params |-> query_params,
                         request_body |-> request_body, called |-> TRUE]
          IN  IF quickbooks = "None"
                THEN /\ tool' = [tool EXCEPT ![c] = [NoTool EXCEPT !.op = i, !.args = args,
                                                              !.called = TRUE]]
                     /\ tool_result' = [tool_result EXCEPT ![c] = Uninitialized]
                     /\ NoCall(c)
                ELSE /\ tool' = [tool EXCEPT ![c] = locals]
                     /\ IF formatted.ok
                          THEN /\ tool_result' = [tool_result EXCEPT ![c] = NoResult]
                               /\ \E r \in Responses :
                                     FirstAttempt(c, t.method, formatted.out, query_params,
                                                  IF DOMAIN request_body # {}
                                                    THEN Body(request_body) ELSE NoBody,
                                                  r)
                          ELSE /\ tool_result' = [tool_result EXCEPT ![c] =
                                                     BindingError(formatted.missing)]
                               /\ NoCall(c)

\* the generated tool function after call_route returned or raised
ToolFinish(c) ==
    /\ UNCHANGED offDispatch
    /\ pc[c] = "done"
    /\ tool[c].called
    /\ tool_result' = [tool_result EXCEPT ![c] = Normalize(result[c])]
    /\ pc' = [pc EXCEPT ![c] = "tool_done"]
    /\ UNCHANGED <<quickbooks, access_token, refresh_token, issued, calls, req, sent,
                   resps, refreshes, data, tokens, result, tool>>

\* the client takes what the tool function returned or raised; its locals are gone
ToolReturn(c) ==
    /\ UNCHANGED offDispatch
    /\ pc[c] = "tool_done"
    /\ pc' = [pc EXCEPT ![c] = "idle"]
    /\ req' = [req EXCEPT ![c] = NoRequest]
    /\ sent' = [sent EXCEPT ![c] = <<>>]
    /\ resps' = [resps EXCEPT ![c] = <<>>]
    /\ refreshes' = [refreshes EXCEPT ![c] = 0]
    /\ data' = [data EXCEPT ![c] = 0]
    /\ tokens' = [tokens EXCEPT ![c] = NoTokens]
    /\ result' = [result EXCEPT ![c] = NoResult]
    /\ tool' = [tool EXCEPT ![c] = NoTool]
    /\ tool_result' = [tool_result EXCEPT ![c] = NoResult]
    /\ UNCHANGED <<quickbooks, access_token, refresh_token, issued, calls>>

(***************************************************************************)
(* load_apis: the interface description compiled into descriptors          *)
(***************************************************************************)
MaxOps == 2

MaxSchemaKeys == 2

Property(n, d, has) == [name |-> n, description |-> d, described |-> has]

\* one key of a body schema with its value: a properties map, a text or a
\* reference (its segments between the slashes)
SchemaEntry(k, ps, txt, ref) == [key |-> k, props |-> ps, text |-> txt, ref |-> ref]

SchemaEntries ==
    { SchemaEntry("properties", <<>>, "", <<>>),
      SchemaEntry("properties",
                  <<Property("Amount", "the amount", TRUE),
                    Property("Line", "", FALSE)>>, "", <<>>),
      SchemaEntry("type", <<>>, "string", <<>>),
      SchemaEntry("description", <<>>, "the note", <<>>),
      SchemaEntry("format", <<>>, "int32", <<>>),
      SchemaEntry("$ref", <<>>, "", <<"#", "components", "schemas", "Bill">>),
      SchemaEntry("$ref", <<>>, "", <<"#", "components", "schemas", "Gone">>) }

\* body schemas: ordered dicts of at most MaxSchemaKeys keys, the empty one too
Schemas ==
    UNION { {sc \in [1..n -> SchemaEntries] :
                \A i, j \in 1..n : i # j => sc[i].key # sc[j].key}
            : n \in 0..MaxSchemaKeys }

\* loaded["components"]["schemas"]
Components ==
    [n \in {"Bill"} |-> [properties |-> <<Property("VendorRef", "the vendor", TRUE)>>]]

NoRequestBody == [present |-> FALSE, schema |-> <<>>]

RequestBodies == {NoRequestBody} \cup [present : {TRUE}, schema : Schemas]

Response(code, d) == [code |-> code, description |-> d]

ResponseMaps ==
    { <<Response(<<"4", "0", "4">>, "Not found"), Response(<<"2", "0", "0">>, "OK")>>,
      <<Response(<<"4", "0", "4">>, "Not found"), Response(<<"2", "0", "1">>, "Created")>>,
      <<Response(<<"3", "0", "2">>, "Found")>>,
      <<Response(<<"4", "0", "4">>, "Not found")>> }

\* a declared parameter as the document gives it, and one with every key absent
RawParam(has, n, loc, rq, ty, d) ==
    [given |-> has, name |-> n, in |-> loc, required |-> rq, type |-> ty,
     description |-> d]

ParameterLists ==
    { <<>>,
      <<RawParam(TRUE, <<"x">>, "path", TRUE, "string", "the id"),
        RawParam(FALSE, <<>>, "", FALSE, "", "")>> }

\* the operation objects of the document
Operations ==
    [summary : {"Read a bill"}, responses : ResponseMaps,
     requestBody : RequestBodies, parameters : ParameterLists]

HasKey(schema, k) == \E i \in 1..Len(schema) : schema[i].key = k

Entry(schema, k) == schema[CHOOSE i \in 1..Len(schema) : schema[i].key = k]

\* the first response code that starts with the digit d, or none
FirstStartingWith(responses, d) ==
    LET hits == {i \in 1..Len(responses) : responses[i].code[1] = d}
    IN  IF hits = {} THEN 0 ELSE CHOOSE i \in hits : \A j \in hits : i <= j

\* success_code: "200", else the first 2xx, else the first 3xx ([0] of an
\* empty list raises IndexError); 0 stands for the IndexError
SuccessIndex(responses) ==
    LET ok == {i \in 1..Len(responses) : responses[i].code = <<"2", "0", "0">>}
    IN  IF ok # {} THEN CHOOSE i \in ok : TRUE
        ELSE IF FirstStartingWith(responses, "2") # 0
               THEN FirstStartingWith(responses, "2")
               ELSE FirstStartingWith(responses, "3")

NoRequestData == [present |-> FALSE, fields |-> <<>>]

RequestData(fields) == [present |-> TRUE, fields |-> fields]

NoError == [exc |-> "", key |-> ""]

Resolved(rd) == [error |-> NoError, request_data |-> rd]

Raised(exc, k) == [error |-> [exc |-> exc, key |-> k], request_data |-> NoRequestData]

RECURSIVE ScanKeys(_, _, _)
\* for key, value in schema.items(): a $ref is resolved against components,
\* any other key raises ValueError
ScanKeys(schema, i, request_data) ==
    IF i > Len(schema) THEN Resolved(request_data)
    ELSE IF schema[i].key = "$ref"
      THEN LET value == schema[i].ref[Len(schema[i].ref)]
           IN  IF value \in DOMAIN Components
                 THEN ScanKeys(schema, i + 1, RequestData(Components[value].properties))
                 ELSE Raised("KeyError", value)
      ELSE Raised("ValueError", schema[i].key)

\* request_data of one operation
ResolveBody(request_body) ==
    IF ~request_body.present THEN Resolved(NoRequestData)
    ELSE LET schema == request_body.schema
         IN  IF HasKey(schema, "properties") /\ Entry(schema, "properties").props # <<>>
               THEN Resolved(RequestData(Entry(schema, "properties").props))
               ELSE IF HasKey(schema, "type") /\ HasKey(schema, "description")
                      THEN Resolved(RequestData(
                               <<Property(Entry(schema, "type").text,
                                          Entry(schema, "description").text, TRUE)>>))
                      ELSE ScanKeys(schema, 1, NoRequestData)

\* parameters_data: every absent key gets its default
ParameterData(p) ==
    IF p.given THEN [name |-> p.name, location |-> p.in, required |-> p.required,
                     type |-> p.type, description |-> p.description]
    ELSE [name |-> <<"U", "n", "n", "a", "m", "e", "d">>, location |-> "unknown",
          required |-> FALSE, type |-> "unknown",
          description |-> "No description provided"]

NoOperation ==
    [summary |-> "", responses |-> <<>>, requestBody |-> NoRequestBody,
     parameters |-> <<>>]

\* one turn of the loop over the (path, method) pairs of the document
LoadNext ==
    /\ UNCHANGED offLoad
    /\ load_error = NoError
    /\ Len(method_data) < MaxOps
    /\ \E op \in Operations :
          LET si == SuccessIndex(op.responses)
              body == ResolveBody(op.requestBody)
          IN  /\ last_op' = op
              /\ IF si = 0
                   THEN /\ load_error' = [exc |-> "IndexError", key |-> ""]
                        /\ UNCHANGED method_data
                   ELSE IF body.error # NoError
                     THEN /\ load_error' = body.error
                          /\ UNCHANGED method_data
                     ELSE /\ method_data' = Append(method_data,
                                [summary |-> op.summary,
                                 response_description |-> op.responses[si].description,
                                 request_data |-> body.request_data,
                                 parameters |-> [i \in 1..Len(op.parameters) |->
                                                    ParameterData(op.parameters[i])]])
                          /\ UNCHANGED load_error

(***************************************************************************)
(* register_all_apis: the loop that registers one tool per operation       *)
(***************************************************************************)
MaxApis == 2

IdentifierChars ==
    {"a", "b", "c", "d", "e", "f", "g", "h", "i", "j", "k", "l", "m", "n", "o",
     "p", "q", "r", "s", "t", "u", "v", "w", "x", "y", "z", "I", "_",
     "0", "1", "2", "3", "4", "5", "6", "7", "8", "9"}

\* def {method_name}(**kwargs) compiles only if method_name is an identifier
IsIdentifier(name) == \A i \in 1..Len(name) : name[i] \in IdentifierChars

\* routes of the interface description
SampleRoutes ==
    { <<"/", "a", "-", "b">>, <<"/", "a", "/", "b">>, <<"/", "a", ":", "b">>,
      TenantPrefix \o <<"/", "a", "/", "{", "b", "}">>, <<"/", "a", ".", "b">> }

ApiCandidates ==
    [route : SampleRoutes, method : {"get", "post"},
     parameters : {<<Param(RealmId, "path")>>}]

\* the lists load_apis may return: one entry per (route, method) of the document
ApiLists ==
    UNION { {l \in [1..n -> ApiCandidates] :
                \A i, j \in 1..n : i # j => l[i] # l[j]} : n \in 0..MaxApis }

\* @mcp.tool(): the tool table of the MCP server keeps one tool per name; a
\* second registration under a name is dropped or replaces the first, as the
\* server decides. register_all_apis itself never looks at the names.
TableInsert(tbl, t, replace) ==
    IF t.name \in DOMAIN tbl /\ ~replace THEN tbl
    ELSE [n \in DOMAIN tbl \cup {t.name} |-> IF n = t.name THEN t ELSE tbl[n]]

\* one turn of the loop: the name is built, the function source is exec'ed
\* and @mcp.tool() registers it
RegisterNext ==
    /\ UNCHANGED offRegister
    /\ reg_error = ""
    /\ reg_idx < Len(apis)
    /\ LET t == GeneratedTool(apis[reg_idx + 1])
       IN  IF IsIdentifier(t.name)
             THEN /\ \E replace \in BOOLEAN : table' = TableInsert(table, t, replace)
                  /\ reg_idx' = reg_idx + 1
                  /\ UNCHANGED <<apis, reg_error>>
             ELSE /\ reg_error' = "SyntaxError"
                  /\ UNCHANGED <<apis, reg_idx, table>>

(***************************************************************************)
(* _flatten_report_rows: the hierarchical report flattened to long format  *)
(*                                                                         *)
(* The report is read as walk reads it: each step takes the next row of    *)
(* the innermost unfinished Rows list. A frame is one activation of walk   *)
(* (or the Section branch that made it): its lineage, the rows of its list *)
(* still to come and the Summary of the Section that owns the list.        *)
(***************************************************************************)
MaxNodes == 3

MaxDepth == 2

Truthy(v) == v.t = "str" /\ v.s # <<>>

\* a or b, for two values that are str or None
Or(a, b) == IF Truthy(a) THEN a ELSE b

Digits == <<"0", "1", "2", "3", "4", "5", "6", "7", "8", "9">>

IsDigit(ch) == \E d \in 1..Len(Digits) : Digits[d] = ch

DigitValue(ch) == (CHOOSE d \in 1..Len(Digits) : Digits[d] = ch) - 1

RECURSIVE DigitsValue(_)
\* the number a string of digits denotes
DigitsValue(ds) ==
    IF ds = <<>> THEN 0
    ELSE DigitsValue(SubSeq(ds, 1, Len(ds) - 1)) * 10 + DigitValue(ds[Len(ds)])

RECURSIVE Reduced(_, _)
\* units / 10^scale with no trailing zero in the fraction
Reduced(units, scale) ==
    IF scale > 0 /\ units % 10 = 0 THEN Reduced(units \div 10, scale - 1)
    ELSE [units |-> units, scale |-> scale]

NotANumber == [ok |-> FALSE, amount |-> [units |-> 0, scale |-> 0]]

\* float(amount_str) for None (TypeError), and for a str: an optional sign,
\* digits and at most one point, with a digit somewhere (else ValueError)
ParseFloat(v) ==
    IF v.t # "str" THEN NotANumber
    ELSE LET signed == Len(v.s) > 0 /\ v.s[1] \in {"-", "+"}
             body == IF signed THEN Tail(v.s) ELSE v.s
             points == {i \in 1..Len(body) : body[i] = "."}
             digits == SelectSeq(body, IsDigit)
         IN  IF /\ Cardinality(points) <= 1
                /\ Len(digits) >= 1
                /\ Len(digits) + Cardinality(points) = Len(body)
               THEN LET scale == IF points = {} THEN 0
                                 ELSE Len(body) - (CHOOSE i \in points : TRUE)
                        n == DigitsValue(digits)
                    IN  [ok |-> TRUE,
                         amount |-> Reduced(IF signed /\ v.s[1] = "-" THEN 0 - n ELSE n,
                                            scale)]
               ELSE NotANumber

\* a cell of ColData: cd.get("value"), cd.get("id")
Cell(v, id) == [value |-> v, id |-> id]

Label(txt) == Cell(PyStr(txt), PyNone)

Text(txt) == Cell(PyStr(txt), PyNone)

\* a column of Columns.Column
Column(title, type) == [ColTitle |-> title, ColType |-> type]

ColumnLists ==
    { <<Column(PyStr(<<"A">>), PyStr(<<"a">>)), Column(PyStr(<<"J">>), PyStr(<<"m">>)),
        Column(PyStr(<<"F">>), PyStr(<<"m">>))>>,
      <<Column(PyStr(<<>>), PyStr(<<"a">>)), Column(PyNone, PyNone)>>,
      <<>> }

\* _get_column_titles
ColumnTitles(cols) ==
    [i \in 1..Len(cols) |-> Str(Or(Or(cols[i].ColTitle, cols[i].ColType), PyStr(<<>>)))]

\* the ColData of the leaf rows: none, a label that reads as a number and
\* nothing else, numbers under a label
\* with an id, text then a number, a null label with a number and a null,
\* an empty label with text and a null
SampleColData ==
    { <<>>,
      <<Label(<<"4">>)>>,
      <<Cell(PyStr(<<"S">>), PyStr(<<"7">>)), Text(<<"1", "0">>),
        Text(<<"-", "2", ".", "5", "0">>)>>,
      <<Label(<<"S">>), Text(<<"a", "b">>), Text(<<"1", "0">>)>>,
      <<Cell(PyNone, PyNone), Text(<<"1", ".">>), Cell(PyNone, PyNone)>>,
      <<Label(<<>>), Text(<<"a", "b">>), Cell(PyNone, PyNone)>> }

\* a row that is no Section: its tag under "type" or "RowType", or none
LeafRows ==
    [type : {"Data"}, RowType : {""}, ColData : SampleColData]
      \cup [type : {""}, RowType : {"Summary", ""},
            ColData : {<<Label(<<"T">>), Text(<<"9">>), Text(<<"-">>)>>}]

\* the Header of a Section: ColData and Title
Header(cd, title) == [ColData |-> cd, Title |-> title]

Headers ==
    { Header(<<Label(<<"I">>)>>, PyNone),
      Header(<<Label(<<>>)>>, PyStr(<<"E">>)),
      Header(<<>>, PyNone) }

\* the Summary of a Section, when it is a dict: ColTitle and ColData
Summary(title, cd) == [present |-> TRUE, ColTitle |-> title, ColData |-> cd]

NoSummary == [present |-> FALSE, ColTitle |-> PyNone, ColData |-> <<>>]

Summaries ==
    { NoSummary,
      Summary(PyNone, <<Label(<<"T">>), Text(<<"9">>), Text(<<"x">>)>>),
      Summary(PyStr(<<"U">>), <<>>) }

\* row.get("type") or row.get("RowType")
RowTypeOf(row) == IF row.type # "" THEN row.type ELSE row.RowType

\* the label of a Section: the first header cell's value, else the Title
HeaderTitle(header) ==
    LET first == IF header.ColData # <<>> THEN header.ColData[1].value ELSE PyNone
    IN  IF Truthy(first) THEN first ELSE header.Title

\* a bug: an empty or absent label is pushed as an empty string
Extended_KeepsEmpty(lineage, title) ==
    Append(lineage, IF title.t = "str" THEN title.s ELSE <<>>)

\* lineage + ([header_title] if header_title else [])
Extended(lineage, title) ==
    IF Truthy(title) THEN Append(lineage, title.s) ELSE lineage

RECURSIVE Join(_, _)
\* sep.join(parts)
Join(parts, sep) ==
    IF parts = <<>> THEN <<>>
    ELSE IF Len(parts) = 1 THEN parts[1]
    ELSE parts[1] \o sep \o Join(Tail(parts), sep)

Arrow == <<" ", ">", " ">>

\* " > ".join(lineage + ([label] if label else []))
FullLine(lineage, label) == Join(Extended(lineage, label), Arrow)

\* str(idx) for the positions a row can have
IndexText(idx) ==
    IF idx < 10 THEN <<Digits[idx + 1]>>
    ELSE <<Digits[(idx \div 10) + 1], Digits[(idx % 10) + 1]>>

\* columns[idx] if idx < len(columns) else f"col_{idx}"
Period(titles, idx) ==
    IF idx < Len(titles) THEN titles[idx + 1]
    ELSE <<"c", "o", "l", "_">> \o IndexText(idx)

ReportRow(line, period, amount, line_type, depth, line_id) ==
    [line |-> line, period |-> period, amount |-> amount, line_type |-> line_type,
     depth |-> depth, line_id |-> line_id]

RECURSIVE EmitFrom(_, _, _, _, _, _, _)
\* for idx, cd in enumerate(coldata[1:], start=1), from idx on: one row per
\* cell whose value float() accepts
EmitFrom(coldata, idx, titles, full_line, line_type, depth, line_id) ==
    IF idx + 1 > Len(coldata) THEN <<>>
    ELSE LET parsed == ParseFloat(coldata[idx + 1].value)
             rest == EmitFrom(coldata, idx + 1, titles, full_line, line_type,
                              depth, line_id)
         IN  IF parsed.ok
               THEN <<ReportRow(full_line, Period(titles, idx), parsed.amount,
                                line_type, depth, line_id)>> \o rest
               ELSE rest

\* a bug: the label column is read as an amount too
LeafOutput_FromLabel(row, lineage, titles) ==
    LET coldata == row.ColData
        label == IF coldata # <<>> THEN coldata[1].value ELSE PyNone
        line_id == IF coldata # <<>> THEN coldata[1].id ELSE PyNone
    IN  EmitFrom(coldata, 0, titles, FullLine(lineage, label),
                 IF RowTypeOf(row) # "" THEN RowTypeOf(row) ELSE "Data",
                 Len(lineage),
                 IF Truthy(line_id) THEN line_id ELSE PyNone)

\* the rows of a Data or Summary row under lineage
LeafOutput(row, lineage, titles) ==
    LET coldata == row.ColData
        label == IF coldata # <<>> THEN coldata[1].value ELSE PyNone
        line_id == IF coldata # <<>> THEN coldata[1].id ELSE PyNone
    IN  EmitFrom(coldata, 1, titles, FullLine(lineage, label),
                 IF RowTypeOf(row) # "" THEN RowTypeOf(row) ELSE "Data",
                 Len(lineage),
                 IF Truthy(line_id) THEN line_id ELSE PyNone)

\* the rows of the Summary of a Section whose extended lineage is new_lineage
SummaryOutput(summary, new_lineage, titles) ==
    LET coldata == summary.ColData
        label == Or(summary.ColTitle,
                    IF coldata # <<>> THEN coldata[1].value ELSE PyNone)
    IN  EmitFrom(coldata, 1, titles, FullLine(new_lineage, label),
                 "Summary", Len(new_lineage), PyNone)

\* one activation of walk: its lineage, the rows still to come, the Summary
\* of the Section that owns the rows, and the header labels of the Sections
\* around them, outermost first
Frame(lineage, n, summary, labels) ==
    [lineage |-> lineage, remaining |-> n, summary |-> summary, labels |-> labels]

NoNode ==
    [kind |-> "none", ColData |-> <<>>, ColTitle |-> PyNone, labels |-> <<>>,
     before |-> <<>>]

Top == stack[Len(stack)]

RECURSIVE Pending(_)
\* the rows the frames still expect
Pending(frames) ==
    IF frames = <<>> THEN 0 ELSE frames[1].remaining + Pending(Tail(frames))

\* rows of the report not yet promised to any Rows list
Unallocated == MaxNodes - visited - Pending(stack)

TakeOne(frames) ==
    [frames EXCEPT ![Len(frames)].remaining = @ - 1]

\* walk meets a Section with n nested rows: walk(nested, new_lineage)
WalkSection ==
    /\ UNCHANGED offReport
    /\ stack # <<>>
    /\ Top.remaining > 0
    /\ Len(stack) <= MaxDepth
    /\ \E header \in Headers, summary \in Summaries, n \in 0..Unallocated :
          LET title == HeaderTitle(header)
              new_lineage == Extended(Top.lineage, title)
          IN  /\ stack' = Append(TakeOne(stack),
                                 Frame(new_lineage, n, summary,
                                       Append(Top.labels, title)))
              /\ last' = [NoNode EXCEPT !.kind = "section",
                                        !.ColData = header.ColData,
                                        !.ColTitle = header.Title,
                                        !.labels = Top.labels,
                                        !.before = flat_rows]
    /\ visited' = visited + 1
    /\ UNCHANGED <<columns, flat_rows>>

\* walk meets a Data or Summary row
WalkLeaf ==
    /\ UNCHANGED offReport
    /\ stack # <<>>
    /\ Top.remaining > 0
    /\ \E row \in LeafRows :
          /\ flat_rows' = flat_rows \o LeafOutput(row, Top.lineage, ColumnTitles(columns))
          /\ last' = [NoNode EXCEPT !.kind = "leaf", !.ColData = row.ColData,
                                    !.labels = Top.labels, !.before = flat_rows]
    /\ stack' = TakeOne(stack)
    /\ visited' = visited + 1
    /\ UNCHANGED columns

\* the nested rows of a Section are done: its Summary, if it is a dict, is
\* flattened under the extended lineage, and walk goes on with the next row
WalkSummary ==
    /\ UNCHANGED offReport
    /\ Len(stack) > 1
    /\ Top.remaining = 0
    /\ flat_rows' = IF Top.summary.present
                      THEN flat_rows \o SummaryOutput(Top.summary, Top.lineage,
                                                     ColumnTitles(columns))
                      ELSE flat_rows
    /\ last' = IF Top.summary.present
                 THEN [NoNode EXCEPT !.kind = "summary",
                                     !.ColData = Top.summary.ColData,
                                     !.ColTitle = Top.summary.ColTitle,
                                     !.labels = Top.labels, !.before = flat_rows]
                 ELSE [NoNode EXCEPT !.kind = "end", !.before = flat_rows]
    /\ stack' = SubSeq(stack, 1, Len(stack) - 1)
    /\ UNCHANGED <<columns, visited>>

(***************************************************************************)
(* The next-page cursor of query_quickbooks and of get_report              *)
(***************************************************************************)
MaxCount == 3

\* a value of the pagination block, or the caller's page_size: absent (or
\* None), one that int() accepts, or one that int() rejects
Absent == [present |-> FALSE, ok |-> FALSE, n |-> 0]

Number(n) == [present |-> TRUE, ok |-> TRUE, n |-> n]

Unparseable == [present |-> TRUE, ok |-> FALSE, n |-> 0]

Fields == {Absent, Unparseable} \cup {Number(n) : n \in 0..MaxCount}

PageSizes == {Absent} \cup {Number(n) : n \in 0..MaxCount}

RECURSIVE NatText(_)
\* str(n) for n >= 0
NatText(n) ==
    IF n < 10 THEN <<Digits[n + 1]>>
    ELSE NatText(n \div 10) \o <<Digits[(n % 10) + 1]>>

\* str(n)
IntText(n) == IF n < 0 THEN <<"-">> \o NatText(0 - n) ELSE NatText(n)

RECURSIVE Strip(_)
\* s.strip(), for blanks
Strip(s) ==
    IF s # <<>> /\ s[1] = " " THEN Strip(Tail(s))
    ELSE IF s # <<>> /\ s[Len(s)] = " " THEN Strip(SubSeq(s, 1, Len(s) - 1))
    ELSE s

\* int(s) of a str: blanks around, an optional sign, then digits only;
\* anything else is a ValueError
ParseInt(s) ==
    LET text == Strip(s)
        signed == Len(text) > 0 /\ text[1] \in {"-", "+"}
        body == IF signed THEN Tail(text) ELSE text
    IN  IF body # <<>> /\ \A i \in 1..Len(body) : IsDigit(body[i])
          THEN [ok |-> TRUE,
                n |-> IF signed /\ text[1] = "-" THEN 0 - DigitsValue(body)
                      ELSE DigitsValue(body)]
          ELSE [ok |-> FALSE, n |-> 0]

\* the QueryResponse of a query: its pagination block and its entity rows
QueryResponses ==
    [startPosition : Fields, maxResults : Fields, totalCount : Fields,
     rows : 0..MaxCount]

\* max_results_val: maxResults when int() accepts it, else page_size
EffectivePageSize(qr, page_size) ==
    IF qr.maxResults.present /\ qr.maxResults.ok THEN qr.maxResults
    ELSE page_size

\* next_page_token of query_quickbooks: None, or str(start + max_results_val)
NextPageToken(qr, page_size) ==
    LET start == IF qr.startPosition.present THEN qr.startPosition ELSE Number(1)
        max_results_val == EffectivePageSize(qr, page_size)
        total == IF qr.totalCount.ok THEN qr.totalCount ELSE Absent
    IN  IF ~start.ok THEN PyNone
        ELSE IF /\ total.present
                /\ max_results_val.present
                /\ start.n + max_results_val.n <= total.n
               THEN PyStr(IntText(start.n + max_results_val.n))
        ELSE IF max_results_val.present /\ qr.rows = max_results_val.n
               THEN PyStr(IntText(start.n + max_results_val.n))
        ELSE PyNone

\* header.get(upper, 0) or header.get(lower, 0): 0, None and "" are falsy
Either(upper, lower) ==
    IF upper.present /\ (~upper.ok \/ upper.n # 0) THEN upper
    ELSE IF lower.present THEN lower
    ELSE Number(0)

\* the Header of a report: the pagination block under either spelling
ReportHeaders ==
    [StartPosition : Fields, MaxResults : Fields, TotalCount : Fields,
     startPosition : {Absent, Number(1)}, maxResults : {Absent},
     totalCount : {Absent}]

\* result["next_page_token"] of get_report, None when the key is not set
ReportNextPageToken(header) ==
    LET start == Either(header.StartPosition, header.startPosition)
        max_results == Either(header.MaxResults, header.maxResults)
        total == Either(header.TotalCount, header.totalCount)
    IN  IF ~start.ok \/ ~max_results.ok \/ ~total.ok THEN PyNone
        ELSE IF /\ total.n # 0
                /\ start.n # 0
                /\ max_results.n # 0
                /\ start.n + max_results.n <= total.n
               THEN PyStr(IntText(start.n + max_results.n))
        ELSE PyNone

NoPage ==
    [kind |-> "none", start |-> Absent, max |-> Absent, total |-> Absent,
     lower |-> [start |-> Absent, max |-> Absent, total |-> Absent],
     rows |-> 0, page_size |-> Absent, token |-> PyNone]

\* a QueryResponse as query_quickbooks receives it, with the page_size of the call
ReceivedQuery(qr, page_size) ==
    [NoPage EXCEPT !.kind = "QueryResponse", !.start = qr.startPosition,
                   !.max = qr.maxResults, !.total = qr.totalCount,
                   !.rows = qr.rows, !.page_size = page_size]

\* a report Header as get_report receives it
ReceivedHeader(header) ==
    [NoPage EXCEPT !.kind = "Header", !.start = header.StartPosition,
                   !.max = header.MaxResults, !.total = header.TotalCount,
                   !.lower = [start |-> header.startPosition,
                              max |-> header.maxResults,
                              total |-> header.totalCount]]

QueryResponseOf(pg) ==
    [startPosition |-> pg.start, maxResults |-> pg.max, totalCount |-> pg.total,
     rows |-> pg.rows]

HeaderOf(pg) ==
    [StartPosition |-> pg.start, MaxResults |-> pg.max, TotalCount |-> pg.total,
     startPosition |-> pg.lower.start, maxResults |-> pg.lower.max,
     totalCount |-> pg.lower.total]

\* query_quickbooks derives the cursor of the response it received
Paginate ==
    /\ UNCHANGED offCursor
    /\ page.kind = "QueryResponse"
    /\ page' = [page EXCEPT !.kind = "query",
                            !.token = NextPageToken(QueryResponseOf(page),
                                                    page.page_size)]

\* get_report derives the cursor of the report it received
ReportPaginate ==
    /\ UNCHANGED offCursor
    /\ page.kind = "Header"
    /\ page' = [page EXCEPT !.kind = "report",
                            !.token = ReportNextPageToken(HeaderOf(page))]

(***************************************************************************)
(* handlers.py: query_quickbooks and get_report                            *)
(***************************************************************************)
\* an optional argument whose text is looked up or passed on whole: None, a
\* str, or the int made of a page token
NoText == [t |-> "NoneType", s |-> "", n |-> 0]

Txt(s) == [t |-> "str", s |-> s, n |-> 0]

IntArg(n) == [t |-> "int", s |-> "", n |-> n]

\* if value: for None and str
Given(v) == v.t = "str" /\ v.s # ""

PREVIOUS_TO_LAST_MAPPING ==
    ("Previous Week" :> "Last Week")
      @@ ("Previous Week-to-date" :> "Last Week-to-date")
      @@ ("Previous Month" :> "Last Month")
      @@ ("Previous Month-to-date" :> "Last Month-to-date")
      @@ ("Previous Fiscal Quarter" :> "Last Fiscal Quarter")
      @@ ("Previous Fiscal Quarter-to-date" :> "Last Fiscal Quarter-to-date")
      @@ ("Previous Fiscal Year" :> "Last Fiscal Year")
      @@ ("Previous Fiscal Year-to-date" :> "Last Fiscal Year-to-date")

\* a bug: the lookup ignores the case of the first letter
convert_previous_to_last_AnyCase(value) ==
    IF value \in DOMAIN PREVIOUS_TO_LAST_MAPPING THEN PREVIOUS_TO_LAST_MAPPING[value]
    ELSE IF value = "previous month" THEN "Last Month"
    ELSE value

\* PREVIOUS_TO_LAST_MAPPING.get(value, value)
convert_previous_to_last(value) ==
    IF value \in DOMAIN PREVIOUS_TO_LAST_MAPPING THEN PREVIOUS_TO_LAST_MAPPING[value]
    ELSE value

\* the date_macro arguments: None, "", the eight synonyms, a macro of the
\* API, a synonym in another case and a macro outside both families
DateMacros ==
    {NoText, Txt("")}
      \cup {Txt(k) : k \in DOMAIN PREVIOUS_TO_LAST_MAPPING}
      \cup {Txt("Last Month"), Txt("previous month"), Txt("This Month")}

\* the page_token arguments: None, "", a position, a negative one, text
PageTokens ==
    { PyNone, PyStr(<<>>), PyStr(<<"2">>), PyStr(<<"-", "5">>), PyStr(<<"a", "b">>) }

ReportNames == { <<"P", "L">> }

\* f"/reports/{report_name}"
ReportRoute(report_name) ==
    <<"/", "r", "e", "p", "o", "r", "t", "s", "/">> \o report_name

QueryRoute == <<"/", "q", "u", "e", "r", "y">>

\* def query(self, query: str)
QuerySignature == {"query"}

\* quickbooks.query(query, start_position=start_position, max_results=page_size)
QueryCallKeywords == {"start_position", "max_results"}

\* whether a call with these keyword arguments binds to the signature
Binds(keywords, signature) == keywords \subseteq signature

\* the params of get_report: only the arguments that are truthy
ReportParams(date_macro, start) ==
    [k \in (IF Given(date_macro) THEN {"date_macro"} ELSE {})
             \cup (IF start.present THEN {"startposition"} ELSE {}) |->
        IF k = "date_macro" THEN Txt(convert_previous_to_last(date_macro.s))
        ELSE IntArg(start.n)]

\* if page_token: int(page_token); an absent or empty token is no token
TokenStart(page_token) ==
    IF Truthy(page_token)
      THEN (IF ParseInt(page_token.s).ok THEN Number(ParseInt(page_token.s).n)
            ELSE Unparseable)
      ELSE Absent

NoHandler ==
    [name |-> "", page_token |-> PyNone, page_size |-> Absent, date_macro |-> NoText,
     called |-> FALSE, session |-> "", credentials |-> ""]

NoOutcome ==
    [kind |-> "none", exc |-> "", cause |-> "", message |-> <<>>,
     date_macro |-> NoText, next_page_token |-> PyNone]

Raises(exc, cause, message) ==
    [NoOutcome EXCEPT !.kind = "error", !.exc = exc, !.cause = cause,
                      !.message = message]

NotInitialized == "QuickBooks session not initialized."

Remediation == "Please check your credentials and restart the server."

\* query_quickbooks: raise RuntimeError("... not initialized. Please check ...")
QueryUninitialized ==
    Raises("RuntimeError", "uninitialized", <<NotInitialized, Remediation>>)

\* get_report: raise RuntimeError("QuickBooks session not initialized.")
ReportUninitialized == Raises("RuntimeError", "uninitialized", <<NotInitialized>>)

InvalidPageToken ==
    Raises("ValueError", "page_token",
           <<"Invalid page_token; expected integer string for start position">>)

\* the TypeError of a call that passes keywords the function does not take
UnexpectedKeyword ==
    Raises("TypeError", "signature",
           <<"query() got an unexpected keyword argument 'start_position'">>)

\* an exception of call_route, not caught by the handler
Propagated(res) == Raises(res.exc, res.cause, <<>>)

\* check_for_api_error: "Fault" in response
HasFault(v) == TypeOf(v) = "dict" /\ Len(v) >= 2 /\ v[2] = "Fault"

FaultResponse == [status |-> 200, json |-> <<"dict", "Fault">>, text |-> ""]

HandlerResponses == Responses \cup {FaultResponse}

\* the pagination blocks a decoded response may turn out to hold
SampleQueryResponses ==
    { [startPosition |-> Absent, maxResults |-> Absent, totalCount |-> Absent,
       rows |-> 0],
      [startPosition |-> Number(1), maxResults |-> Number(2), totalCount |-> Number(3),
       rows |-> 2] }

SampleHeaders ==
    { [StartPosition |-> Absent, MaxResults |-> Absent, TotalCount |-> Absent,
       startPosition |-> Absent, maxResults |-> Absent, totalCount |-> Absent],
      [StartPosition |-> Number(1), MaxResults |-> Number(2), TotalCount |-> Number(3),
       startPosition |-> Absent, maxResults |-> Absent, totalCount |-> Absent] }

\* {"result": ..., "meta": ...} with meta.period.date_macro and, when one
\* was derived, next_page_token
Outcome(date_macro, token) ==
    [NoOutcome EXCEPT !.kind = "ok", !.date_macro = date_macro,
                      !.next_page_token = token]

\* query_quickbooks, from its entry to the first answer of the transport
QueryHandler(c) ==
    /\ UNCHANGED offHandlers
    /\ pc[c] = "idle"
    /\ calls < MaxCalls
    /\ \E page_token \in PageTokens, page_size \in PageSizes :
          LET start_position == TokenStart(page_token)
              locals == [NoHandler EXCEPT !.name = "query_quickbooks",
                                          !.page_token = page_token,
                                          !.page_size = page_size,
                                          !.session = quickbooks,
                                          !.credentials = credentials]
          IN  /\ handler' = [handler EXCEPT ![c] =
                    [locals EXCEPT !.called =
                        /\ quickbooks # "None"
                        /\ start_position # Unparseable
                        /\ Binds(QueryCallKeywords, QuerySignature)]]
              /\ IF quickbooks = "None"
                   THEN /\ handler_result' = [handler_result EXCEPT ![c] =
                                                 QueryUninitialized]
                        /\ NoCall(c)
                   ELSE IF start_position = Unparseable
                   THEN /\ handler_result' = [handler_result EXCEPT ![c] =
                                                 InvalidPageToken]
                        /\ NoCall(c)
                   ELSE IF ~Binds(QueryCallKeywords, QuerySignature)
                   THEN /\ handler_result' = [handler_result EXCEPT ![c] =
                                                 UnexpectedKeyword]
                        /\ NoCall(c)
                   ELSE /\ handler_result' = [handler_result EXCEPT ![c] = NoOutcome]
                        /\ \E r \in HandlerResponses :
                              FirstAttempt(c, "get", QueryRoute,
                                           [k \in {"query"} |-> Txt("select")],
                                           NoBody, r)
    /\ UNCHANGED credentials

\* get_report, from its entry to the first answer of the transport; the
\* optional arguments other than date_macro and page_token are left out
ReportHandler(c) ==
    /\ UNCHANGED offHandlers
    /\ pc[c] = "idle"
    /\ calls < MaxCalls
    /\ \E report_name \in ReportNames, date_macro \in DateMacros,
          page_token \in PageTokens :
          LET start == TokenStart(page_token)
              locals == [NoHandler EXCEPT !.name = "get_report",
                                          !.page_token = page_token,
                                          !.date_macro = date_macro,
                                          !.session = quickbooks,
                                          !.credentials = credentials]
          IN  /\ handler' = [handler EXCEPT ![c] =
                    [locals EXCEPT !.called =
                        quickbooks # "None" /\ start # Unparseable]]
              /\ IF quickbooks = "None"
                   THEN /\ handler_result' = [handler_result EXCEPT ![c] =
                                                 ReportUninitialized]
                        /\ NoCall(c)
                   ELSE IF start = Unparseable
                   THEN /\ handler_result' = [handler_result EXCEPT ![c] =
                                                 InvalidPageToken]
                        /\ NoCall(c)
                   ELSE /\ handler_result' = [handler_result EXCEPT ![c] = NoOutcome]
                        /\ \E r \in HandlerResponses :
                              FirstAttempt(c, "get", ReportRoute(report_name),
                                           ReportParams(date_macro, start), NoBody, r)
    /\ UNCHANGED credentials

\* the handler after call_route returned or raised: check_for_api_error, the
\* dict test, then the result with its meta and its cursor
HandlerFinish(c) ==
    /\ UNCHANGED offHandlers
    /\ pc[c] = "done"
    /\ handler[c].called
    /\ LET res == result[c]
       IN  IF res.kind = "error"
             THEN handler_result' = [handler_result EXCEPT ![c] = Propagated(res)]
           ELSE IF HasFault(res.value)
             THEN handler_result' = [handler_result EXCEPT ![c] =
                                        Raises("RuntimeError", "fault", <<>>)]
           ELSE IF TypeOf(res.value) # "dict"
             THEN handler_result' = [handler_result EXCEPT ![c] =
                                        Raises("TypeError", "TypeError", <<>>)]
           ELSE IF handler[c].name = "get_report"
             THEN \E header \in SampleHeaders :
                     handler_result' = [handler_result EXCEPT ![c] =
                         Outcome(handler[c].date_macro, ReportNextPageToken(header))]
           ELSE \E qr \in SampleQueryResponses :
                   handler_result' = [handler_result EXCEPT ![c] =
                       Outcome(NoText, NextPageToken(qr, handler[c].page_size))]
    /\ pc' = [pc EXCEPT ![c] = "tool_done"]
    /\ UNCHANGED <<quickbooks, access_token, refresh_token, issued, calls, req, sent,
                   resps, refreshes, data, tokens, result, handler, credentials>>

\* the client takes what the handler returned or raised; its locals are gone
HandlerReturn(c) ==
    /\ UNCHANGED offHandlers
    /\ pc[c] = "tool_done"
    /\ pc' = [pc EXCEPT ![c] = "idle"]
    /\ req' = [req EXCEPT ![c] = NoRequest]
    /\ sent' = [sent EXCEPT ![c] = <<>>]
    /\ resps' = [resps EXCEPT ![c] = <<>>]
    /\ refreshes' = [refreshes EXCEPT ![c] = 0]
    /\ data' = [data EXCEPT ![c] = 0]
    /\ tokens' = [tokens EXCEPT ![c] = NoTokens]
    /\ result' = [result EXCEPT ![c] = NoResult]
    /\ handler' = [handler EXCEPT ![c] = NoHandler]
    /\ handler_result' = [handler_result EXCEPT ![c] = NoOutcome]
    /\ UNCHANGED <<quickbooks, access_token, refresh_token, issued, calls, credentials>>

\* the operator repairs the credentials the token endpoint had rejected
CredentialsRepaired ==
    /\ UNCHANGED offHandlers
    /\ credentials = "rejected"
    /\ credentials' = "valid"
    /\ UNCHANGED <<callVars, handler, handler_result>>

(***************************************************************************)
(* Specifications                                                          *)
(***************************************************************************)
\* the state after QuickBooksSession() succeeded at import: the first token
\* response (access token 1, refresh token 1) was stored
InitSession ==
    /\ quickbooks = "session"
    /\ access_token = 1
    /\ refresh_token = 1
    /\ issued = 1

\* QuickBooksSession() raised at import: the session stays None
InitNoSession ==
    /\ quickbooks = "None"
    /\ access_token = 0
    /\ refresh_token = 0
    /\ issued = 0

InitCallers ==
    /\ calls = 0
    /\ pc = [c \in Callers |-> "idle"]
    /\ req = [c \in Callers |-> NoRequest]
    /\ sent = [c \in Callers |-> <<>>]
    /\ resps = [c \in Callers |-> <<>>]
    /\ refreshes = [c \in Callers |-> 0]
    /\ data = [c \in Callers |-> 0]
    /\ tokens = [c \in Callers |-> NoTokens]
    /\ result = [c \in Callers |-> NoResult]
    /\ tool = [c \in Callers |-> NoTool]
    /\ tool_result = [c \in Callers |-> NoResult]

\* register_all_apis is not running
IdleRegister ==
    /\ apis = <<>>
    /\ reg_idx = 0
    /\ table = EmptyMap
    /\ reg_error = ""

\* load_apis is not running
IdleLoad ==
    /\ last_op = NoOperation
    /\ method_data = <<>>
    /\ load_error = NoError

\* _flatten_report_rows is not running
IdleReport ==
    /\ columns = <<>>
    /\ stack = <<>>
    /\ flat_rows = <<>>
    /\ visited = 0
    /\ last = NoNode

\* no handler is running; the session was built with valid credentials
IdleHandlers ==
    /\ handler = [c \in Callers |-> NoHandler]
    /\ handler_result = [c \in Callers |-> NoOutcome]
    /\ credentials = "valid"

\* no cursor has been derived
IdleCursor == page = NoPage

InitCall ==
    /\ InitSession /\ InitCallers /\ IdleRegister /\ IdleLoad /\ IdleReport
    /\ IdleHandlers /\ IdleCursor

NextCall ==
    \E c \in Callers :
        \/ CallRoute(c)
        \/ RefreshSubmit(c)
        \/ RefreshStoreAccess(c)
        \/ RefreshStoreRefresh(c)
        \/ Retry(c)
        \/ Return(c)

\* concurrent callers of call_route on one session
SpecCall == InitCall /\ [][NextCall]_vars

InitTool ==
    /\ (InitSession \/ InitNoSession) /\ InitCallers /\ IdleRegister /\ IdleLoad
    /\ IdleReport /\ IdleHandlers /\ IdleCursor

NextTool ==
    \/ ToolCall("c1")
    \/ RefreshSubmit("c1")
    \/ RefreshStoreAccess("c1")
    \/ RefreshStoreRefresh("c1")
    \/ Retry("c1")
    \/ ToolFinish("c1")
    \/ ToolReturn("c1")

\* one client calling the generated tool functions
SpecTool == InitTool /\ [][NextTool]_vars

InitRegister ==
    /\ InitSession
    /\ InitCallers
    /\ IdleLoad
    /\ IdleReport
    /\ IdleHandlers
    /\ IdleCursor
    /\ apis \in ApiLists
    /\ reg_idx = 0
    /\ table = EmptyMap
    /\ reg_error = ""

NextRegister == RegisterNext

\* register_all_apis at import
SpecRegister == InitRegister /\ [][NextRegister]_vars

InitLoad ==
    /\ InitSession /\ InitCallers /\ IdleRegister /\ IdleLoad /\ IdleReport
    /\ IdleHandlers /\ IdleCursor

NextLoad == LoadNext

\* load_apis over a document
SpecLoad == InitLoad /\ [][NextLoad]_vars

\* walk(top_rows, []) is entered: a report with some Columns and n top rows
InitReport ==
    /\ InitSession
    /\ InitCallers
    /\ IdleRegister
    /\ IdleLoad
    /\ IdleHandlers
    /\ IdleCursor
    /\ columns \in ColumnLists
    /\ \E n \in 0..MaxNodes : stack = <<Frame(<<>>, n, NoSummary, <<>>)>>
    /\ flat_rows = <<>>
    /\ visited = 0
    /\ last = NoNode

NextReport ==
    \/ WalkSection
    \/ WalkLeaf
    \/ WalkSummary

\* _flatten_report_rows over a report
SpecReport == InitReport /\ [][NextReport]_vars

\* the module-level session after import: built when the token endpoint
\* accepted the credentials, None when it rejected them
InitHandlers ==
    /\ \/ InitSession /\ credentials = "valid"
       \/ InitNoSession /\ credentials = "rejected"
    /\ InitCallers /\ IdleRegister /\ IdleLoad /\ IdleReport /\ IdleCursor
    /\ handler = [c \in Callers |-> NoHandler]
    /\ handler_result = [c \in Callers |-> NoOutcome]

NextHandlers ==
    \/ QueryHandler("c1")
    \/ ReportHandler("c1")
    \/ RefreshSubmit("c1")
    \/ RefreshStoreAccess("c1")
    \/ RefreshStoreRefresh("c1")
    \/ Retry("c1")
    \/ HandlerFinish("c1")
    \/ HandlerReturn("c1")
    \/ CredentialsRepaired

\* one client calling query_quickbooks and get_report
SpecHandlers == InitHandlers /\ [][NextHandlers]_vars

\* a response has been received: a QueryResponse with the page_size of the
\* call, or the Header of a report
InitCursor ==
    /\ InitSession /\ InitCallers /\ IdleRegister /\ IdleLoad /\ IdleReport
    /\ IdleHandlers
    /\ \/ \E qr \in QueryResponses, page_size \in PageSizes :
             page = ReceivedQuery(qr, page_size)
       \/ \E header \in ReportHeaders : page = ReceivedHeader(header)

NextCursor ==
    \/ Paginate
    \/ ReportPaginate

\* the cursor derivations of query_quickbooks and get_report over the
\* pagination blocks of their responses
SpecCursor == InitCursor /\ [][NextCursor]_vars

(***************************************************************************)
(* Claims about call_route (checked under SpecCall)                        *)
(***************************************************************************)
Finished(c) == pc[c] = "done"

FirstStatus(c) == resps[c][1].status

SameRequest(a, b) ==
    /\ a.method = b.method
    /\ a.url = b.url
    /\ a.params = b.params
    /\ a.json = b.json

\* what a finished call gives for the answer r to its last attempt
FinalFor(r) == IF r.status = 200 THEN Returned(r.json) ELSE ApiError(r)

RetriedOnce(c) ==
    /\ Len(sent[c]) = 2
    /\ Len(resps[c]) = 2
    /\ SameRequest(sent[c][1], sent[c][2])
    /\ result[c] = FinalFor(resps[c][2])

\* C1 as stated: a call whose first attempt got 401 refreshes exactly once,
\* then sends the same request exactly once more, and what the retry
\* returns is final (200: the parsed body; otherwise an error with the
\* status and the raw body).
C1_AlwaysRetriesAfter401 ==
    \A c \in Callers :
        (Finished(c) /\ FirstStatus(c) = 401) =>
            (refreshes[c] = 1 /\ RetriedOnce(c))

\* C1 amended: after a first 401 the refresh is invoked exactly once; when
\* the token endpoint accepts it, the same request is sent exactly once more
\* and the retry's answer is final; when the token endpoint rejects it, the
\* call fails with the refresh error and the transport is not called again.
C1_RetryOnceIfRefreshed ==
    \A c \in Callers :
        /\ Len(sent[c]) <= 2
        /\ refreshes[c] <= 1
        /\ (Finished(c) /\ FirstStatus(c) = 401) =>
              /\ refreshes[c] = 1
              /\ IF tokens[c].status = 200
                   THEN RetriedOnce(c)
                   ELSE /\ Len(sent[c]) = 1
                        /\ result[c] = RefreshError(tokens[c])

\* a call whose retry was answered 401 again has finished with that error
C1_Witness ==
    \E c \in Callers :
        /\ Finished(c)
        /\ Len(resps[c]) = 2
        /\ FirstStatus(c) = 401
        /\ resps[c][2].status = 401
        /\ result[c] = ApiError(resps[c][2])
        /\ req[c].method = "post"

\* C2: a first answer that is neither 200 nor 401 fails the call at once
\* with the status and the raw body, with no refresh and no second
\* transport call; no call makes more than two transport calls.
C2_OtherStatusFailsAtOnce ==
    \A c \in Callers :
        /\ Len(sent[c]) <= 2
        /\ (Len(resps[c]) >= 1 /\ FirstStatus(c) \notin {200, 401}) =>
              /\ Finished(c)
              /\ result[c] = ApiError(resps[c][1])
              /\ refreshes[c] = 0
              /\ Len(sent[c]) = 1

C2_Witness ==
    \E c \in Callers :
        /\ Finished(c)
        /\ FirstStatus(c) = 500
        /\ result[c].status = 500
        /\ result[c].text = "busy"

InRefresh(c) == pc[c] \in {"rf_response", "rf_access_stored"}

\* C3: the token refresh is a critical section: at most one caller is inside
\* refresh_access_token at a time, no two refreshes in flight were submitted
\* with the same refresh token, and the held access token is never older
\* than the held refresh token or paired with one of another response.
C3_RefreshIsCriticalSection ==
    /\ \A c, d \in Callers : (c # d /\ InRefresh(c)) => ~InRefresh(d)
    /\ \A c, d \in Callers :
          (c # d /\ InRefresh(c) /\ InRefresh(d)) => data[c] # data[d]
    /\ (\A c \in Callers : ~InRefresh(c)) => refresh_token <= access_token

(***************************************************************************)
(* Claims about the generated tool functions (checked under SpecTool)      *)
(***************************************************************************)
\* the names between braces in a route template
Placeholders(route) ==
    { SubSeq(route, i + 1, j - 1) : <<i, j>> \in
        { ij \in (1..Len(route)) \X (1..Len(route)) :
            /\ ij[1] < ij[2]
            /\ route[ij[1]] = "{"
            /\ route[ij[2]] = "}"
            /\ \A k \in (ij[1] + 1)..(ij[2] - 1) : route[k] \notin {"{", "}"} } }

\* the tool function of caller c got past the session check
Bound(c) == tool[c].called /\ quickbooks = "session"

\* C4: binding succeeds iff every placeholder of the route template has a
\* supplied value; a missing placeholder (also when none is supplied) fails
\* the call with an error naming it, and no route with an unsubstituted
\* placeholder is passed to the transport.
C4_BindingAllOrNothing ==
    \A c \in Callers :
        Bound(c) =>
            LET missing == { n \in Placeholders(Tools[tool[c].op].route) :
                               n \notin DOMAIN tool[c].kwargs }
            IN  /\ missing # {} =>
                      /\ tool_result[c].cause = "KeyError"
                      /\ tool_result[c].name \in missing
                      /\ sent[c] = <<>>
                /\ missing = {} => tool_result[c].cause # "KeyError"
                /\ \A i \in 1..Len(sent[c]) :
                      ~Contains(sent[c][i].url.route, <<"{">>)

\* C5: a declared non-tenant parameter is in the path map exactly when its
\* location is path and it is supplied with a non-null value, and in the
\* query map exactly when its location is query and it is supplied with a
\* non-null value; a parameter not supplied, or supplied as null, is in
\* neither map.
C5_ParametersClassified ==
    \A c \in Callers :
        Bound(c) =>
            LET ps == Tools[tool[c].op].api_params
            IN  \A i \in 1..Len(ps) :
                    LET n == ps[i].name
                        given == /\ n \in DOMAIN tool[c].kwargs
                                 /\ tool[c].kwargs[n] # PyNone
                    IN  /\ n \in DOMAIN tool[c].path_params
                              <=> (ps[i].location = "path" /\ given)
                        /\ n \in DOMAIN tool[c].query_params
                              <=> (ps[i].location = "query" /\ given)

\* C6: an object response is returned unchanged, a list response is returned
\* as an object whose single key results holds that list (wrapped once), and
\* any other decoded shape fails the call with the type-mismatch error.
C6_ResponseShape ==
    \A c \in Callers :
        (pc[c] = "tool_done" /\ result[c].kind = "ok") =>
            LET v == result[c].value
                out == tool_result[c]
            IN  /\ TypeOf(v) = "dict" => out = Returned(v)
                /\ TypeOf(v) = "list" =>
                      /\ out.kind = "ok"
                      /\ Len(out.value) = Len(v) + 2
                      /\ SubSeq(out.value, 1, 2) = <<"dict", "results">>
                      /\ SubSeq(out.value, 3, Len(out.value)) = v
                /\ TypeOf(v) \notin {"dict", "list"} =>
                      /\ out.kind = "error"
                      /\ out.cause = "TypeError"
                      /\ out.text = TypeOf(v)

\* a list answered to the retry of a POST came back wrapped under results
C6_Witness ==
    \E c \in Callers :
        /\ pc[c] = "tool_done"
        /\ Len(resps[c]) = 2
        /\ result[c] = Returned(<<"list", "l1">>)
        /\ tool_result[c] = Returned(<<"dict", "results", "list", "l1">>)

(***************************************************************************)
(* Claims about register_all_apis (checked under SpecRegister)             *)
(***************************************************************************)
\* C7: operation names are unique within the registry: the name is the
\* method followed by the normalised route, and when two distinct (route,
\* method) pairs normalise to the same name, registration fails with a
\* duplicate-operation error instead of one registration silently
\* displacing the other.
C7_NamesUniqueOrError ==
    \A i, j \in 1..reg_idx :
        (i < j /\ MethodName(apis[i]) = MethodName(apis[j])) =>
            reg_error = "DuplicateOperationError"

(***************************************************************************)
(* Claims about load_apis (checked under SpecLoad)                         *)
(***************************************************************************)
\* the three shapes of a body schema that load_apis resolves
RecognizedShape(schema) ==
    \/ HasKey(schema, "properties") /\ Entry(schema, "properties").props # <<>>
    \/ HasKey(schema, "type") /\ HasKey(schema, "description")
    \/ HasKey(schema, "$ref")

\* the latest turn of the loop compiled an operation that declares a body schema
CompiledWithBody ==
    /\ Len(method_data) > 0
    /\ load_error = NoError
    /\ last_op.requestBody.present

\* C8: an operation that declares a request-body schema either has it
\* resolved by one of the three recognised shapes or fails load_apis with
\* an error; no other schema (an empty one, a type without description)
\* compiles into a descriptor with no body.
C8_BodyResolvedOrError ==
    CompiledWithBody =>
        /\ method_data[Len(method_data)].request_data.present
        /\ RecognizedShape(last_op.requestBody.schema)


(***************************************************************************)
(* Report flattening: rows per leaf, line, depth and order                 *)
(***************************************************************************)
\* walk has just flattened a Data or Summary row, or a Section's Summary
Handled == last.kind \in {"leaf", "summary"}

\* the rows the last step appended
Emitted == SubSeq(flat_rows, Len(last.before) + 1, Len(flat_rows))

\* the positions (label = 1) of the cells after the label whose value is a number
NumericColumns(coldata) ==
    {i \in 2..Len(coldata) : ParseFloat(coldata[i].value).ok}

\* the k-th smallest member of a set of positions
Kth(positions, k) ==
    CHOOSE i \in positions : Cardinality({j \in positions : j < i}) = k - 1

\* the non-empty labels among the Sections around a row, outermost first
AncestorLabels(labels) ==
    LET kept == SelectSeq(labels, Truthy)
    IN  [i \in 1..Len(kept) |-> kept[i].s]

\* the label of the row handled last: a Summary's ColTitle comes first
OwnLabel ==
    LET first == IF last.ColData # <<>> THEN last.ColData[1].value ELSE PyNone
    IN  IF last.kind = "summary" /\ Truthy(last.ColTitle) THEN last.ColTitle ELSE first

\* the ancestor labels, then the row's own label when it has one
ExpectedLine ==
    Join(AncestorLabels(last.labels) \o (IF Truthy(OwnLabel) THEN <<OwnLabel.s>> ELSE <<>>),
         <<" ", ">", " ">>)

\* C9: every Data or Summary row is flattened without an error into exactly
\* as many ReportRows as it has cells at index >= 1 whose value parses as a
\* number: none for a row of text and nulls, and none for the label cell,
\* and the rows flattened before it stay as they were.
C9_OneRowPerNumericColumn ==
    Handled =>
        /\ Len(flat_rows) = Len(last.before) + Cardinality(NumericColumns(last.ColData))
        /\ SubSeq(flat_rows, 1, Len(last.before)) = last.before

\* a row with a text cell and a numeric cell gave one ReportRow, for the
\* numeric cell, after the rows before it had given none
C9_Witness ==
    /\ last.kind = "leaf"
    /\ Len(last.ColData) = 3
    /\ ~ParseFloat(last.ColData[2].value).ok
    /\ ParseFloat(last.ColData[3].value).ok
    /\ Len(Emitted) = 1
    /\ Emitted[1].amount = [units |-> 10, scale |-> 0]
    /\ visited > 1
    /\ last.before = <<>>

\* C10: every ReportRow of a Data or Summary row has for line the non-empty
\* labels of the Sections around it, outermost first, joined with " > " and
\* followed by the row's own label when it has one (a non-empty one), and
\* for depth the number of those Section labels; the rows of one row come in
\* column order after the rows of every row before it, and a Section adds
\* no row of its own.
C10_LineDepthOrder ==
    /\ Handled =>
        /\ SubSeq(flat_rows, 1, Len(last.before)) = last.before
        /\ \A k \in 1..Len(Emitted) :
              /\ Emitted[k].line = ExpectedLine
              /\ Emitted[k].depth = Len(AncestorLabels(last.labels))
              /\ k <= Cardinality(NumericColumns(last.ColData)) =>
                    LET i == Kth(NumericColumns(last.ColData), k)
                    IN  /\ Emitted[k].amount = ParseFloat(last.ColData[i].value).amount
                        /\ Emitted[k].period = Period(ColumnTitles(columns), i - 1)
    /\ last.kind \in {"section", "end"} => flat_rows = last.before

\* under a Section labelled I and, inside it, a Section with no label, the
\* row S with two numbers gave "I > S" twice at depth 1, in column order
C10_Witness ==
    /\ last.kind = "leaf"
    /\ Len(last.labels) = 2
    /\ Truthy(last.labels[1])
    /\ ~Truthy(last.labels[2])
    /\ Len(Emitted) = 2
    /\ Emitted[1].line = <<"I", " ", ">", " ", "S">>
    /\ Emitted[1].depth = 1
    /\ Emitted[1].amount = [units |-> 10, scale |-> 0]
    /\ Emitted[2].amount = [units |-> 0 - 25, scale |-> 1]


(***************************************************************************)
(* Claims about query_quickbooks and get_report (checked under             *)
(* SpecHandlers)                                                           *)
(***************************************************************************)
\* the handler has returned or raised
Answered(c) == pc[c] = "tool_done" /\ handler[c].name # ""

\* the caller-facing synonyms and the macros of the API they stand for
Synonyms ==
    { <<"Previous Week", "Last Week">>,
      <<"Previous Week-to-date", "Last Week-to-date">>,
      <<"Previous Month", "Last Month">>,
      <<"Previous Month-to-date", "Last Month-to-date">>,
      <<"Previous Fiscal Quarter", "Last Fiscal Quarter">>,
      <<"Previous Fiscal Quarter-to-date", "Last Fiscal Quarter-to-date">>,
      <<"Previous Fiscal Year", "Last Fiscal Year">>,
      <<"Previous Fiscal Year-to-date", "Last Fiscal Year-to-date">> }

\* what the API is to receive for a macro of the caller
Translated(macro) ==
    IF \E pair \in Synonyms : pair[1] = macro
      THEN (CHOOSE pair \in Synonyms : pair[1] = macro)[2]
      ELSE macro

\* C11: the date macro get_report transmits is the caller's value with each
\* of the eight "Previous X" synonyms replaced by its "Last X" and every
\* other value (another case, a "Last X") unchanged, in the first attempt
\* and in the retry; a macro that is None or empty is not transmitted; and
\* translating twice gives what translating once gives.
C11_DateMacroTranslated ==
    \A c \in Callers :
        (handler[c].name = "get_report" /\ sent[c] # <<>>) =>
            /\ \A i \in 1..Len(sent[c]) :
                  IF Given(handler[c].date_macro)
                    THEN /\ "date_macro" \in DOMAIN sent[c][i].params
                         /\ sent[c][i].params["date_macro"] =
                               Txt(Translated(handler[c].date_macro.s))
                    ELSE "date_macro" \notin DOMAIN sent[c][i].params
            /\ convert_previous_to_last(convert_previous_to_last(handler[c].date_macro.s))
                  = convert_previous_to_last(handler[c].date_macro.s)

\* get_report was called with "Previous Month", sent "Last Month" and returned
C11_Witness ==
    /\ Answered("c1")
    /\ handler["c1"].name = "get_report"
    /\ handler["c1"].date_macro = Txt("Previous Month")
    /\ Len(sent["c1"]) >= 1
    /\ sent["c1"][1].params["date_macro"] = Txt("Last Month")
    /\ handler_result["c1"].kind = "ok"

\* C12: the date macro in the meta of a report is the requested macro after
\* translation, the value that was transmitted.
C12_MetaHoldsTransmittedMacro ==
    \A c \in Callers :
        (/\ Answered(c)
         /\ handler[c].name = "get_report"
         /\ handler_result[c].kind = "ok"
         /\ Given(handler[c].date_macro)) =>
            handler_result[c].date_macro = sent[c][1].params["date_macro"]

\* a str of digits and nothing else
NonNegativeIntegerString(v) ==
    /\ v.t = "str"
    /\ v.s # <<>>
    /\ \A i \in 1..Len(v.s) : IsDigit(v.s[i])

\* C15: with a page_token that is not a non-negative integer string, the call
\* fails with the pagination error and no request is sent.
C15_PageTokenValidated ==
    \A c \in Callers :
        (/\ handler[c].name # ""
         /\ handler[c].session = "session"
         /\ handler[c].page_token # PyNone
         /\ ~NonNegativeIntegerString(handler[c].page_token)) =>
            /\ sent[c] = <<>>
            /\ Answered(c) => handler_result[c] = InvalidPageToken

\* C16: a call made while the session is None fails with the uninitialized
\* session error, whose message tells what to do about it, and sends nothing.
C16_UninitializedWithRemediation ==
    \A c \in Callers :
        (Answered(c) /\ handler[c].session = "None") =>
            /\ handler_result[c].kind = "error"
            /\ handler_result[c].cause = "uninitialized"
            /\ \E i \in 1..Len(handler_result[c].message) :
                  handler_result[c].message[i] = Remediation
            /\ sent[c] = <<>>

\* C17: a call made once the credentials are valid does not fail as
\* uninitialized: the session is built again when it is needed.
C17_SessionBuiltOnDemand ==
    \A c \in Callers :
        (Answered(c) /\ handler[c].credentials = "valid") =>
            handler_result[c].cause # "uninitialized"

\* C18: query_quickbooks with a session, a valid page_token and a page size
\* reaches the remote API with that start position and page size, and
\* returns its rows when the answer is a 200 object without a Fault.
C18_PagedQueryReachesApi ==
    \A c \in Callers :
        (/\ Answered(c)
         /\ handler[c].name = "query_quickbooks"
         /\ handler[c].session = "session"
         /\ NonNegativeIntegerString(handler[c].page_token)
         /\ handler[c].page_size.present) =>
            /\ sent[c] # <<>>
            /\ (/\ resps[c][Len(resps[c])].status = 200
                /\ TypeOf(resps[c][Len(resps[c])].json) = "dict"
                /\ ~HasFault(resps[c][Len(resps[c])].json)) =>
                   handler_result[c].kind = "ok"

(***************************************************************************)
(* Claims about the next-page cursor (checked under SpecCursor)            *)
(***************************************************************************)
\* the start position of the response: startPosition, 1 when it is absent
StartOf(pg) == IF pg.start.present THEN pg.start ELSE Number(1)

\* the effective page size: maxResults when parseable, else the page size
SizeOf(pg) == IF pg.max.present /\ pg.max.ok THEN pg.max ELSE pg.page_size

====
